---- MODULE Spec2Model ----
(***************************************************************************)
(* The agent-loop iteration ledger of solaris-browse, as the schema in     *)
(* migrations/01_create_tables.sql defines it: the agents table, the       *)
(* agent_loops table with its foreign key and its primary key on           *)
(* (agent_id, iteration), and the BEFORE INSERT trigger set_iteration      *)
(* that runs next_iteration() for each inserted row.                       *)
(*                                                                         *)
(* An INSERT into agent_loops is two steps of the inserting session: the   *)
(* trigger reads MAX(iteration) of the rows committed so far, and then the *)
(* row is inserted, with the primary-key and foreign-key checks, and       *)
(* committed.  Other sessions may take steps in between, which is the      *)
(* READ COMMITTED behaviour of concurrent single-row inserts.              *)
(* Iterations stay far below the 32-bit range of INTEGER.                  *)
(***************************************************************************)
EXTENDS Integers, Sequences, FiniteSets, TLC

\* ---- bounds of the model ----
MaxCalls == 3
MaxExplicit == 2

\* The database sessions that insert concurrently.
Writers == {"w1", "w2"}

\* ---- values ----
\* SQL NULL of the INTEGER column iteration (no row holds it: NOT NULL).
NULL == 0 - 1
\* SQL NULL of a TEXT column.
NullText == "<null>"
\* uuid_generate_v4() draws from these.
AgentIds == {"A1", "A2"}
SessionIds == {"S1"}
Intents == {"buy shoes"}
PlanResults == {"plan: click search", "plan: type query"}
ExecutionResults == {"clicked search"}
\* What a caller may put in the iteration column of an INSERT.
IterationInputs == {NULL} \cup (1..MaxExplicit)

VARIABLES
    agents,         \* table agents: set of rows [id, session_id, intent]
    agent_loops,    \* table agent_loops: sequence of rows, in insertion order
    assigned_by,    \* per row of agent_loops: "trigger" or "caller" set its iteration
    pc,             \* per writer: "ready", or "insert" (the trigger has run)
    NEWROW,         \* per writer: the row of its INSERT (NEW of the trigger)
    given,          \* per writer: the iteration column as the caller wrote it
    result,         \* per writer: outcome of its last INSERT
    prior,          \* per writer: MAX(iteration) of its agent when its INSERT started
    earlier,        \* per writer: iteration stored by the attempt this call retries, or NULL
    retried,        \* per writer: the current call repeats the previous call of this writer
    calls           \* number of INSERT statements issued so far

vars == <<agents, agent_loops, assigned_by, pc, NEWROW, given, result, prior,
          earlier, retried, calls>>

\* A polling client of the read boundary.
VARIABLES
    lastQuery,      \* the query of the client's last poll, or NoQuery
    view,           \* what that poll returned
    seenRows        \* rows in agents and agent_loops when that poll ran

rvars == <<lastQuery, view, seenRows>>

\* The Form component of my-app and the requests it has in flight.
VARIABLES
    requestData,    \* useState: [url, intent, context]
    submitted,      \* useState: the success message is shown instead of the form
    loading,        \* useState: the submit button is disabled
    error,          \* useState: the message under the form, or JsNull
    inflight,       \* handleSubmit calls that have not reached their finally block
    timers,         \* pending setTimeout callbacks of the reset effect
    cleanup,        \* the last run of the effect returned () => clearTimeout(timer)
    effectDue,      \* submitted has changed and the effect has not run for it yet
    mounted,        \* the component is mounted
    last,           \* the handleSubmit call that ended last: how it went
    submits         \* number of handleSubmit calls so far

fvars == <<requestData, submitted, loading, error, inflight, timers, cleanup,
           effectDue, mounted, last, submits>>

\* The BrowserView component and its polls of http://localhost:8000/session/.
VARIABLES
    steps,          \* useState: the list the sidebar shows
    viewLoading,    \* useState loading: 'Loading sessions...' is shown
    phase,          \* "rendered" (effect not run yet), "mounted" or "unmounted"
    interval,       \* the setInterval(fetchSessions, 5000) is active
    fetching,       \* fetchSessions calls that have not ended
    polls,          \* fetchSessions calls so far
    lastPoll,       \* how the fetchSessions call that ended last went
    failedAt        \* polls when a fetchSessions call last ended in the catch block

vvars == <<steps, viewLoading, phase, interval, fetching, polls, lastPoll, failedAt>>

NoRow == [agent_id |-> "A1", iteration |-> NULL,
          plan_result |-> NullText, execution_result |-> NullText]

\* ---- the tables ----
AgentRow(id, s, i) == [id |-> id, session_id |-> s, intent |-> i]

\* Exists(agent_id): the row REFERENCES agents(id) looks for.
Exists(a, ags) == \E r \in ags : r.id = a

Indexes(a, rows) == {k \in DOMAIN rows : rows[k].agent_id = a}

Iterations(a, rows) == {rows[k].iteration : k \in Indexes(a, rows)}

SetMax(S) == CHOOSE m \in S : \A x \in S : x <= m

\* SELECT MAX(iteration) FROM agent_loops WHERE agent_id = a: NULL over no rows.
MaxIteration(a, rows) ==
    IF Iterations(a, rows) = {} THEN NULL ELSE SetMax(Iterations(a, rows))

\* x + 1 in SQL: NULL + 1 is NULL.
PlusOne(x) == IF x = NULL THEN NULL ELSE x + 1

COALESCE(x, d) == IF x = NULL THEN d ELSE x

\* next_iteration with COALESCE(MAX(iteration) + 1, 0): counting from 0.
next_iteration_from_zero(new, rows) ==
    IF new.iteration = NULL
    THEN [new EXCEPT !.iteration = COALESCE(PlusOne(MaxIteration(new.agent_id, rows)), 0)]
    ELSE new

\* next_iteration with COALESCE(MAX(iteration), 1): the + 1 left out.
next_iteration_no_increment(new, rows) ==
    IF new.iteration = NULL
    THEN [new EXCEPT !.iteration = COALESCE(MaxIteration(new.agent_id, rows), 1)]
    ELSE new

\* next_iteration without WHERE agent_id = NEW.agent_id: MAX over all rows.
next_iteration_all_agents(new, rows) ==
    IF new.iteration = NULL
    THEN [new EXCEPT !.iteration =
             IF rows = <<>> THEN 1
             ELSE SetMax({rows[k].iteration : k \in DOMAIN rows}) + 1]
    ELSE new

\* The trigger function: fills NEW.iteration only when the caller left it NULL.
next_iteration(new, rows) ==
    IF new.iteration = NULL
    THEN [new EXCEPT !.iteration = COALESCE(PlusOne(MaxIteration(new.agent_id, rows)), 1)]
    ELSE new

\* agent_loops without its primary key.
DuplicateKeyUnchecked(new, rows) == FALSE

\* PRIMARY KEY (agent_id, iteration): a row with the key is already there.
DuplicateKey(new, rows) ==
    \E k \in DOMAIN rows :
        rows[k].agent_id = new.agent_id /\ rows[k].iteration = new.iteration

\* agent_loops.agent_id without REFERENCES agents(id).
ForeignKeyUnchecked(new, ags) == FALSE

\* agent_id REFERENCES agents(id): no such agent.
ForeignKeyViolation(new, ags) == ~Exists(new.agent_id, ags)

\* The outcome of inserting the row the trigger returned.
InsertOutcome(new, rows, ags) ==
    IF DuplicateKey(new, rows) THEN "DuplicateIteration"
    ELSE IF ForeignKeyViolation(new, ags) THEN "UnknownAgent"
    ELSE "ok"

\* A row stored without its execution_result.
StoredRowPartial(new) ==
    [agent_id |-> new.agent_id, iteration |-> new.iteration,
     plan_result |-> new.plan_result, execution_result |-> NullText]

\* The row as stored: all four columns of NEW.
StoredRow(new) ==
    [agent_id |-> new.agent_id, iteration |-> new.iteration,
     plan_result |-> new.plan_result, execution_result |-> new.execution_result]

\* An INSERT ... ON CONFLICT DO UPDATE: the row with the key is overwritten.
UpsertedRows(new, rows, ags) ==
    IF \E k \in DOMAIN rows :
           rows[k].agent_id = new.agent_id /\ rows[k].iteration = new.iteration
    THEN [k \in DOMAIN rows |->
             IF rows[k].agent_id = new.agent_id /\ rows[k].iteration = new.iteration
             THEN [agent_id |-> new.agent_id, iteration |-> new.iteration,
                   plan_result |-> new.plan_result,
                   execution_result |-> new.execution_result]
             ELSE rows[k]]
    ELSE IF \E r \in ags : r.id = new.agent_id
    THEN Append(rows, [agent_id |-> new.agent_id, iteration |-> new.iteration,
                       plan_result |-> new.plan_result,
                       execution_result |-> new.execution_result])
    ELSE rows

\* The table after the INSERT: one more row on success, unchanged on an error.
InsertedRows(new, rows, ags) ==
    IF InsertOutcome(new, rows, ags) = "ok" THEN Append(rows, StoredRow(new)) ELSE rows

\* ---- the reads of the spec's Loop Reader ----
\* The rows of an agent, ordered by iteration ascending, one entry per stored row.
RECURSIVE OrderedRows(_, _)
OrderedRows(K, rows) ==
    IF K = {} THEN <<>>
    ELSE LET k == CHOOSE x \in K : \A y \in K :
                      \/ rows[x].iteration < rows[y].iteration
                      \/ (rows[x].iteration = rows[y].iteration /\ x <= y)
         IN  <<rows[k]>> \o OrderedRows(K \ {k}, rows)

History(a) == OrderedRows(Indexes(a, agent_loops), agent_loops)

HistoryIterations(a) == [k \in DOMAIN History(a) |-> History(a)[k].iteration]

\* ---- the polling client before its first poll ----
NoQuery == [op |-> "none", arg |-> "none"]

InitReader ==
    /\ lastQuery = NoQuery
    /\ view = <<>>
    /\ seenRows = 0

\* ---- the Form component as first rendered ----
MaxSubmits == 2

JsNull == "null"
FieldNames == {"url", "intent", "context"}
FieldValues == {"", "x"}
EmptyRequestData == [url |-> "", intent |-> "", context |-> ""]
NoCall == [upstream |-> "none", response |-> "none", outcome |-> "none"]

InitForm ==
    /\ requestData = EmptyRequestData
    /\ submitted = FALSE
    /\ loading = FALSE
    /\ error = JsNull
    /\ inflight = <<>>
    /\ timers = 0
    /\ cleanup = FALSE
    /\ effectDue = FALSE
    /\ mounted = TRUE
    /\ last = NoCall
    /\ submits = 0

\* ---- the BrowserView component as first rendered ----
MaxPolls == 4

InitView ==
    /\ steps = <<>>
    /\ viewLoading = TRUE
    /\ phase = "rendered"
    /\ interval = FALSE
    /\ fetching = 0
    /\ polls = 0
    /\ lastPoll = "none"
    /\ failedAt = 0

\* ---- initial state: the migration has run, both tables are empty ----
Init ==
    /\ agents = {}
    /\ agent_loops = <<>>
    /\ assigned_by = <<>>
    /\ pc = [w \in Writers |-> "ready"]
    /\ NEWROW = [w \in Writers |-> NoRow]
    /\ given = [w \in Writers |-> NULL]
    /\ result = [w \in Writers |-> "none"]
    /\ prior = [w \in Writers |-> NULL]
    /\ earlier = [w \in Writers |-> NULL]
    /\ retried = [w \in Writers |-> FALSE]
    /\ calls = 0
    /\ InitReader
    /\ InitForm
    /\ InitView

\* ---- operations ----
\* INSERT INTO agents (session_id, intent): id DEFAULT uuid_generate_v4().
CreateAgent ==
    \E id \in AgentIds, s \in SessionIds, i \in Intents :
        /\ ~Exists(id, agents)
        /\ agents' = agents \cup {AgentRow(id, s, i)}
        /\ UNCHANGED <<agent_loops, assigned_by, pc, NEWROW, given, result, prior,
                       earlier, retried, calls>>
        /\ UNCHANGED <<rvars, fvars, vvars>>

\* A session runs INSERT INTO agent_loops with the given columns: the statement
\* starts and BEFORE INSERT ... FOR EACH ROW EXECUTE FUNCTION next_iteration()
\* runs on its row.  With the iteration left NULL this is the spec's
\* RecordCycle, with an iteration given it is the spec's Append.
set_iteration(w, a, it, p, e) ==
    /\ pc[w] = "ready"
    /\ calls < MaxCalls
    /\ LET row == [agent_id |-> a, iteration |-> it,
                   plan_result |-> p, execution_result |-> e]
           again == /\ result[w] # "none"
                    /\ it = NULL
                    /\ given[w] = NULL
                    /\ NEWROW[w].agent_id = a
                    /\ NEWROW[w].plan_result = p
                    /\ NEWROW[w].execution_result = e
       IN  /\ NEWROW' = [NEWROW EXCEPT ![w] = next_iteration(row, agent_loops)]
           /\ retried' = [retried EXCEPT ![w] = again]
           /\ earlier' = [earlier EXCEPT ![w] =
                            IF again /\ result[w] = "ok" THEN NEWROW[w].iteration ELSE NULL]
    /\ given' = [given EXCEPT ![w] = it]
    /\ prior' = [prior EXCEPT ![w] = MaxIteration(a, agent_loops)]
    /\ pc' = [pc EXCEPT ![w] = "insert"]
    /\ result' = [result EXCEPT ![w] = "none"]
    /\ calls' = calls + 1
    /\ UNCHANGED <<agents, agent_loops, assigned_by>>
    /\ UNCHANGED <<rvars, fvars, vvars>>

\* The row goes into the table: key checks, then the whole row or nothing.
InsertRow(w) ==
    /\ pc[w] = "insert"
    /\ result' = [result EXCEPT ![w] = InsertOutcome(NEWROW[w], agent_loops, agents)]
    /\ agent_loops' = InsertedRows(NEWROW[w], agent_loops, agents)
    /\ assigned_by' = IF Len(agent_loops') > Len(agent_loops)
                      THEN Append(assigned_by,
                                  IF given[w] = NULL THEN "trigger" ELSE "caller")
                      ELSE assigned_by
    /\ pc' = [pc EXCEPT ![w] = "ready"]
    /\ UNCHANGED <<agents, NEWROW, given, prior, earlier, retried, calls>>
    /\ UNCHANGED <<rvars, fvars, vvars>>

Next ==
    \/ CreateAgent
    \/ \E w \in Writers, a \in AgentIds, it \in IterationInputs,
          p \in PlanResults, e \in ExecutionResults : set_iteration(w, a, it, p, e)
    \/ \E w \in Writers : InsertRow(w)

allvars == <<vars, rvars, fvars, vvars>>

Spec == Init /\ [][Next]_allvars

\* ---- the read boundary, polled ----
\* The queries a dashboard re-issues on its interval.
Queries ==
    {[op |-> "History", arg |-> a] : a \in AgentIds}
        \cup {[op |-> "LatestIteration", arg |-> a] : a \in AgentIds}
        \cup {[op |-> "ActiveAgents", arg |-> s] : s \in SessionIds}

\* LatestIteration(agent_id): the record with the largest iteration (none: NotFound).
LatestIteration(a) ==
    IF History(a) = <<>> THEN <<>> ELSE <<History(a)[Len(History(a))]>>

\* ActiveAgents(session_id): the ids of the session's agents.
ActiveAgents(sid) == {r.id : r \in {x \in agents : x.session_id = sid}}

\* What a query returns in the current state.
Answer(q) ==
    IF q.op = "History" THEN <<"History", HistoryIterations(q.arg)>>
    ELSE IF q.op = "LatestIteration" THEN <<"LatestIteration", LatestIteration(q.arg)>>
    ELSE <<"ActiveAgents", ActiveAgents(q.arg)>>

\* A read that consumes what it returns: the oldest row is gone afterwards.
RowsAfterConsumingRead(rows) == IF rows = <<>> THEN rows ELSE Tail(rows)

\* agent_loops after a read: a read writes nothing.
RowsAfterRead(rows) == rows

\* One poll: the query is answered from the tables as they are.
Poll(q) ==
    /\ lastQuery' = q
    /\ view' = Answer(q)
    /\ seenRows' = Len(agent_loops) + Cardinality(agents)
    /\ agent_loops' = RowsAfterRead(agent_loops)
    /\ assigned_by' = SubSeq(assigned_by, Len(assigned_by) - Len(agent_loops') + 1,
                             Len(assigned_by))
    /\ UNCHANGED <<agents, pc, NEWROW, given, result, prior, earlier, retried, calls>>
    /\ UNCHANGED <<fvars, vvars>>

\* The session that writes while the client polls, and what it writes.
PolledWriters == {"w1"}
PolledPlans == {"plan: click search"}

NextRead ==
    \/ CreateAgent
    \/ \E w \in PolledWriters, a \in AgentIds, it \in IterationInputs,
          p \in PolledPlans, e \in ExecutionResults : set_iteration(w, a, it, p, e)
    \/ \E w \in PolledWriters : InsertRow(w)
    \/ \E q \in Queries : Poll(q)

SpecRead == Init /\ [][NextRead]_allvars

\* ---- vocabulary of the properties ----
\* The writer's last INSERT has ended (with "ok" or an error).
Returned(w) == pc[w] = "ready" /\ result[w] # "none"

\* The writer's INSERT left the iteration to the trigger: a RecordCycle call.
IsRecordCycle(w) == given[w] = NULL

\* Number of stored rows with the key (a, i).
RowsWithKey(a, i, rows) ==
    Cardinality({k \in DOMAIN rows : rows[k].agent_id = a /\ rows[k].iteration = i})

\* SQL NULL read as 0 when a maximum is used as a count.
OrZero(x) == IF x = NULL THEN 0 ELSE x

\* ---- C1 ----
\* C1: in every reachable state and for every agent, the stored iteration
\* numbers are exactly 1..N for some N >= 0, each held by one row.
C1_IterationsContiguous ==
    \A a \in AgentIds :
        /\ Iterations(a, agent_loops) = 1..Cardinality(Iterations(a, agent_loops))
        /\ Cardinality(Indexes(a, agent_loops)) = Cardinality(Iterations(a, agent_loops))

\* ---- C2 ----
\* The RecordCycle calls on agent a that have returned and that all started
\* from the same maximum m: calls that ran concurrently.
ConcurrentCalls(a, m) ==
    {w \in Writers : /\ Returned(w)
                     /\ IsRecordCycle(w)
                     /\ NEWROW[w].agent_id = a
                     /\ prior[w] = m
                     /\ result[w] # "UnknownAgent"}

\* C2: K concurrent RecordCycle calls on one agent all succeed, and their
\* iterations are the K numbers prior_max+1 .. prior_max+K.  Stated for runs
\* in which every row and every pending INSERT left the iteration to the trigger.
C2_ConcurrentCallsAllSucceed ==
    (/\ \A k \in DOMAIN assigned_by : assigned_by[k] = "trigger"
     /\ \A w \in Writers : IsRecordCycle(w))
    => \A a \in AgentIds, m \in {NULL} \cup (1..MaxCalls) :
          LET S == ConcurrentCalls(a, m)
          IN  /\ \A w \in S : result[w] = "ok"
              /\ {NEWROW[w].iteration : w \in S}
                     = (OrZero(m) + 1)..(OrZero(m) + Cardinality(S))

\* ---- C3 ----
\* C3: a RecordCycle call that succeeds gets an iteration above every
\* iteration its agent held when the call started (so above that of every
\* call that had returned by then), and no two rows whose iteration the
\* trigger assigned share an (agent_id, iteration).
C3_RealTimeOrder ==
    /\ \A w \in Writers :
          (Returned(w) /\ IsRecordCycle(w) /\ result[w] = "ok")
              => NEWROW[w].iteration > prior[w]
    /\ \A j, k \in DOMAIN agent_loops :
          (/\ j # k
           /\ assigned_by[j] = "trigger"
           /\ assigned_by[k] = "trigger"
           /\ agent_loops[j].agent_id = agent_loops[k].agent_id)
              => agent_loops[j].iteration # agent_loops[k].iteration

\* One call returned with iteration i, and a later call of another session,
\* started when i was already stored, returned with a larger one.
C3_Witness ==
    \E v, w \in Writers :
        /\ v # w
        /\ Returned(v) /\ IsRecordCycle(v) /\ result[v] = "ok"
        /\ Returned(w) /\ IsRecordCycle(w) /\ result[w] = "ok"
        /\ NEWROW[v].agent_id = NEWROW[w].agent_id
        /\ prior[w] # NULL
        /\ NEWROW[v].iteration <= prior[w]
        /\ NEWROW[v].iteration < NEWROW[w].iteration

\* ---- C4 ----
\* C4: a RecordCycle call ends with its record written, with UnknownAgent, or
\* with IterationAssignmentFailed after the bounded retries; DuplicateIteration
\* is never what the caller gets.
C4_DuplicateNeverSurfaced ==
    \A w \in Writers :
        (Returned(w) /\ IsRecordCycle(w))
            => result[w] \in {"ok", "UnknownAgent", "IterationAssignmentFailed"}

\* ---- C5 ----
\* C5: an INSERT whose agent_id is not in agents ends with UnknownAgent and
\* leaves agent_loops as it was, and every stored row refers to a stored agent.
C5_UnknownAgentRejected ==
    [][ /\ \A w \in Writers :
              (/\ pc[w] = "insert"
               /\ pc'[w] = "ready"
               /\ \A r \in agents : r.id # NEWROW[w].agent_id)
                  => (result'[w] = "UnknownAgent" /\ agent_loops' = agent_loops)
        /\ \A k \in DOMAIN agent_loops' :
              \E r \in agents' : r.id = agent_loops'[k].agent_id ]_vars

\* A call for an agent that was never created has returned UnknownAgent,
\* while the table holds rows of another agent.
C5_Witness ==
    \E w \in Writers :
        /\ Returned(w)
        /\ result[w] = "UnknownAgent"
        /\ \A r \in agents : r.id # NEWROW[w].agent_id
        /\ agent_loops # <<>>
\* ---- C6 ----
\* C6: an INSERT (the Append of the spec) whose (agent_id, iteration) is
\* already stored ends with DuplicateIteration, and every stored row stays in
\* the table with its plan_result and execution_result, in every step.
C6_AppendOnceImmutable ==
    [][ /\ \A w \in Writers :
              (/\ pc[w] = "insert"
               /\ pc'[w] = "ready"
               /\ RowsWithKey(NEWROW[w].agent_id, NEWROW[w].iteration, agent_loops) > 0)
                  => result'[w] = "DuplicateIteration"
        /\ \A k \in DOMAIN agent_loops :
              k \in DOMAIN agent_loops' /\ agent_loops'[k] = agent_loops[k] ]_vars

\* An Append for a stored key, with another plan_result than the stored row's,
\* has returned DuplicateIteration.
C6_Witness ==
    \E w \in Writers :
        /\ Returned(w)
        /\ ~IsRecordCycle(w)
        /\ result[w] = "DuplicateIteration"
        /\ \E k \in DOMAIN agent_loops :
              /\ agent_loops[k].agent_id = NEWROW[w].agent_id
              /\ agent_loops[k].iteration = NEWROW[w].iteration
              /\ agent_loops[k].plan_result # NEWROW[w].plan_result

\* ---- C7 ----
\* The rows of agent b, in insertion order.
RowsOfAgent(b, rows) ==
    LET OfB(r) == r.agent_id = b IN SelectSeq(rows, OfB)

\* The iteration the trigger gave to a RecordCycle call follows one of its own
\* agent's stored iterations, or is 1.
FollowsOwnAgent(w) ==
    (IsRecordCycle(w) /\ (pc[w] = "insert" \/ result[w] # "none"))
        => \/ NEWROW[w].iteration = 1
           \/ \E k \in Indexes(NEWROW[w].agent_id, agent_loops) :
                 NEWROW[w].iteration = agent_loops[k].iteration + 1

\* A call that returned DuplicateIteration met a row of its own agent.
ConflictWithinAgent(w) ==
    (Returned(w) /\ result[w] = "DuplicateIteration")
        => RowsWithKey(NEWROW[w].agent_id, NEWROW[w].iteration, agent_loops) > 0

\* C7: a step of an INSERT for agent a leaves the rows of every other agent b
\* and the pending INSERTs of other sessions as they were; the iteration the
\* trigger assigns for b follows b's own rows only; and an INSERT for b fails
\* with DuplicateIteration only on a row of b.
C7_AgentsIsolated ==
    [][ /\ \A w \in Writers :
              pc'[w] # pc[w]
                  => /\ \A b \in AgentIds \ {NEWROW'[w].agent_id} :
                           RowsOfAgent(b, agent_loops') = RowsOfAgent(b, agent_loops)
                     /\ \A v \in Writers \ {w} :
                           NEWROW'[v] = NEWROW[v] /\ result'[v] = result[v]
        /\ \A w \in Writers : FollowsOwnAgent(w)' /\ ConflictWithinAgent(w)' ]_vars

\* One agent holds iterations 1 and 2, and the last row stored is another
\* agent's first RecordCycle, with iteration 1.
C7_Witness ==
    \E a, b \in AgentIds, w \in Writers :
        /\ a # b
        /\ {1, 2} \subseteq Iterations(a, agent_loops)
        /\ Returned(w) /\ IsRecordCycle(w) /\ result[w] = "ok"
        /\ NEWROW[w].agent_id = b
        /\ NEWROW[w].iteration = 1
        /\ agent_loops[Len(agent_loops)].agent_id = b

\* ---- C8 ----
\* C8: for an agent all of whose rows came from RecordCycle calls, History
\* lists the iterations 1, 2, ..., N in ascending order, N the number of rows.
C8_HistoryOneToN ==
    \A a \in AgentIds :
        (\A k \in Indexes(a, agent_loops) : assigned_by[k] = "trigger")
            => HistoryIterations(a) = [k \in 1..Cardinality(Indexes(a, agent_loops)) |-> k]

\* Two RecordCycle calls have succeeded one after the other for one agent and
\* its history is <<1, 2>>, stored in that order.
C8_Witness ==
    \E a \in AgentIds :
        /\ \A k \in Indexes(a, agent_loops) : assigned_by[k] = "trigger"
        /\ HistoryIterations(a) = <<1, 2>>
        /\ RowsOfAgent(a, agent_loops)[1].iteration = 1

\* ---- C9 ----
\* C9: a step in which an INSERT returns "ok" adds exactly one row, the last
\* one, with all four columns of the call; every other step (an INSERT that
\* returns an error, a trigger run that has set the iteration, CreateAgent)
\* leaves agent_loops as it was.
C9_WholeRowOrNothing ==
    [][ IF \E w \in Writers : pc[w] = "insert" /\ pc'[w] = "ready" /\ result'[w] = "ok"
        THEN \E w \in Writers :
                /\ pc[w] = "insert" /\ pc'[w] = "ready"
                /\ agent_loops' =
                      Append(agent_loops,
                             [agent_id |-> NEWROW[w].agent_id,
                              iteration |-> NEWROW[w].iteration,
                              plan_result |-> NEWROW[w].plan_result,
                              execution_result |-> NEWROW[w].execution_result])
                /\ NEWROW[w].iteration # NULL
        ELSE agent_loops' = agent_loops ]_vars

\* A call has stored its full row while another session's INSERT, with its
\* iteration already set by the trigger, has no row in the table yet.
C9_Witness ==
    \E v, w \in Writers :
        /\ Returned(v) /\ result[v] = "ok"
        /\ agent_loops # <<>>
        /\ agent_loops[Len(agent_loops)].agent_id = NEWROW[v].agent_id
        /\ agent_loops[Len(agent_loops)].iteration = NEWROW[v].iteration
        /\ agent_loops[Len(agent_loops)].execution_result = NEWROW[v].execution_result
        /\ pc[w] = "insert"
        /\ RowsWithKey(NEWROW[w].agent_id, NEWROW[w].iteration, agent_loops) = 0

\* ---- C10 ----
\* C10: when a session repeats a RecordCycle call, the trigger gives the
\* repeated call an iteration no stored row of the agent holds; when it
\* succeeds, the row of the earlier attempt (if that attempt had stored one)
\* is still there under its own, different iteration; and no (agent_id,
\* iteration) is ever held by two rows.
C10_RetryGetsFreshIteration ==
    [][ /\ \A w \in Writers :
              (pc[w] = "ready" /\ pc'[w] = "insert" /\ retried'[w])
                  => RowsWithKey(NEWROW'[w].agent_id, NEWROW'[w].iteration, agent_loops) = 0
        /\ \A w \in Writers :
              (pc[w] = "insert" /\ pc'[w] = "ready" /\ retried[w] /\ result'[w] = "ok")
                  => /\ RowsWithKey(NEWROW[w].agent_id, NEWROW[w].iteration, agent_loops) = 0
                     /\ RowsWithKey(NEWROW[w].agent_id, NEWROW[w].iteration, agent_loops') = 1
                     /\ earlier[w] # NULL
                           => /\ earlier[w] # NEWROW[w].iteration
                              /\ RowsWithKey(NEWROW[w].agent_id, earlier[w], agent_loops') = 1
        /\ \A k \in DOMAIN agent_loops' :
              RowsWithKey(agent_loops'[k].agent_id, agent_loops'[k].iteration,
                          agent_loops') = 1 ]_vars

\* A repeated call has succeeded after its earlier attempt had stored a row:
\* both rows are in the table.
C10_Witness ==
    \E w \in Writers :
        /\ Returned(w) /\ retried[w] /\ result[w] = "ok"
        /\ earlier[w] # NULL
        /\ RowsWithKey(NEWROW[w].agent_id, earlier[w], agent_loops) = 1
        /\ RowsWithKey(NEWROW[w].agent_id, NEWROW[w].iteration, agent_loops) = 1

\* ---- C11 ----
\* C11: every stored row got its iteration from the trigger (no row holds an
\* iteration the caller chose).
C11_OnlyCounterAssigned ==
    \A k \in DOMAIN agent_loops : assigned_by[k] = "trigger"

UpstreamOutcomes == {"ok", "error_json", "error_not_json", "unreachable"}
UpstreamFailures == UpstreamOutcomes \ {"ok"}

\* The route's answer.  await fetch and await response.json() throw on
\* "unreachable" and "error_not_json" and the catch block answers 500; any
\* parsed body is destructured and answered with the default status 200
\* (response.ok of the upstream answer is not looked at).
POST(upstream) ==
    IF upstream \in {"unreachable", "error_not_json"}
    THEN [ok |-> FALSE, body |-> "error"]
    ELSE [ok |-> TRUE, body |-> IF upstream = "ok" THEN "session" ELSE "empty"]

\* Answers to fetch('/api/submitform') that do not come from the route handler.
OtherResponses ==
    {[ok |-> FALSE, body |-> "not json"], [ok |-> FALSE, body |-> "empty"],
     [ok |-> FALSE, body |-> "null"], [ok |-> TRUE, body |-> "not json"]}

\* ---- Form.tsx ----
Undefined == "undefined"

\* result.error of a parsed body.
ErrorField(body) == IF body = "error" THEN "Something went wrong" ELSE Undefined

\* x || d
JsOr(x, d) == IF x \in {Undefined, JsNull, ""} THEN d ELSE x

\* handleSubmit without the response.ok test: any parsed body is a success.
OutcomeIgnoringOk(resp) ==
    IF resp.body = "not json" THEN "exception" ELSE "success"

\* Which branch of handleSubmit a response takes: response.json() throws on a
\* body that is no JSON, result.error throws on a null result.
Outcome(resp) ==
    IF resp.body = "not json" THEN "exception"
    ELSE IF resp.ok THEN "success"
    ELSE IF resp.body = "null" THEN "exception"
    ELSE "error"

GenericError == "Error occurred while submitting :("

\* error after the branch.
ErrorAfter(outcome, resp, err) ==
    IF outcome = "success" THEN err
    ELSE IF outcome = "error" THEN JsOr(ErrorField(resp.body), "Unknown error")
    ELSE GenericError

\* setLoading(false) at the end of the try block instead of in finally.
LoadingAfterTry(outcome, l) == IF outcome = "exception" THEN l ELSE FALSE

\* loading after the finally block.
LoadingAfter(outcome, l) == FALSE

\* A submit button without disabled={loading}.
SubmitAlwaysEnabled(l, s, data) == ~s /\ data.url # ""

\* The form can be submitted: it is rendered (not submitted), its button is
\* not disabled, and the required url field is filled.
SubmitEnabled(l, s, data) == ~s /\ ~l /\ data.url # ""

\* An effect without return () => clearTimeout(timer).
TimersWithoutCleanup(t, c) == t

\* The pending timers after the effect's cleanup has run.
TimersAfterCleanup(t, c) == IF c /\ t > 0 THEN t - 1 ELSE t

Remove(seq, i) == SubSeq(seq, 1, i - 1) \o SubSeq(seq, i + 1, Len(seq))

\* handleChange: one field takes the typed value.
handleChange(name, value) ==
    /\ mounted
    /\ ~submitted
    /\ requestData[name] # value
    /\ requestData' = [requestData EXCEPT ![name] = value]
    /\ UNCHANGED <<submitted, loading, error, inflight, timers, cleanup, effectDue,
                   mounted, last, submits>>
    /\ UNCHANGED <<vars, rvars, vvars>>

\* handleSubmit up to its first await: the request leaves with the fields as
\* they are.
handleSubmit ==
    /\ mounted
    /\ SubmitEnabled(loading, submitted, requestData)
    /\ submits < MaxSubmits
    /\ loading' = TRUE
    /\ error' = JsNull
    /\ inflight' = Append(inflight, [pos |-> "sent", body |-> requestData,
                                     upstream |-> "none",
                                     response |-> [ok |-> FALSE, body |-> "none"]])
    /\ submits' = submits + 1
    /\ UNCHANGED <<requestData, submitted, timers, cleanup, effectDue, mounted, last>>
    /\ UNCHANGED <<vars, rvars, vvars>>

\* The route handler runs for a request and answers it.
RouteAnswers(i, upstream) ==
    /\ inflight[i].pos = "sent"
    /\ inflight' = [inflight EXCEPT ![i] = [@ EXCEPT !.pos = "answered",
                                                    !.upstream = upstream,
                                                    !.response = POST(upstream)]]
    /\ UNCHANGED <<requestData, submitted, loading, error, timers, cleanup, effectDue,
                   mounted, last, submits>>
    /\ UNCHANGED <<vars, rvars, vvars>>

\* The request is answered without reaching the route handler.
OtherAnswer(i, resp) ==
    /\ inflight[i].pos = "sent"
    /\ inflight' = [inflight EXCEPT ![i] = [@ EXCEPT !.pos = "answered",
                                                    !.response = resp]]
    /\ UNCHANGED <<requestData, submitted, loading, error, timers, cleanup, effectDue,
                   mounted, last, submits>>
    /\ UNCHANGED <<vars, rvars, vvars>>

\* await fetch(...) resolves: handleSubmit goes on to await response.json().
FetchResolves(i) ==
    /\ inflight[i].pos = "answered"
    /\ inflight' = [inflight EXCEPT ![i] = [@ EXCEPT !.pos = "parsing"]]
    /\ UNCHANGED <<requestData, submitted, loading, error, timers, cleanup, effectDue,
                   mounted, last, submits>>
    /\ UNCHANGED <<vars, rvars, vvars>>

\* The rest of handleSubmit once the way it ends is known: the branch, then
\* finally.  State setters of an unmounted component do nothing.
Finish(i, outcome) ==
    /\ inflight' = Remove(inflight, i)
    /\ last' = [upstream |-> inflight[i].upstream,
                response |-> inflight[i].response, outcome |-> outcome]
    /\ IF mounted
       THEN /\ submitted' = IF outcome = "success" THEN TRUE ELSE submitted
            /\ requestData' = IF outcome = "success" THEN EmptyRequestData
                              ELSE requestData
            /\ error' = ErrorAfter(outcome, inflight[i].response, error)
            /\ loading' = LoadingAfter(outcome, loading)
            /\ effectDue' = (effectDue \/ submitted' # submitted)
       ELSE UNCHANGED <<submitted, requestData, error, loading, effectDue>>
    /\ UNCHANGED <<timers, cleanup, mounted, submits>>
    /\ UNCHANGED <<vars, rvars, vvars>>

\* await fetch(...) rejects (the request or its answer is lost): catch, finally.
FetchRejects(i) ==
    /\ inflight[i].pos \in {"sent", "answered"}
    /\ Finish(i, "exception")

\* await response.json() settles: the branch the response takes, then finally.
JsonSettles(i) ==
    /\ inflight[i].pos = "parsing"
    /\ Finish(i, Outcome(inflight[i].response))

\* useEffect(..., [submitted]) after a render in which submitted changed: the
\* cleanup of the last run, then the effect.
ResetEffect ==
    /\ mounted
    /\ effectDue
    /\ timers' = TimersAfterCleanup(timers, cleanup) + (IF submitted THEN 1 ELSE 0)
    /\ cleanup' = submitted
    /\ effectDue' = FALSE
    /\ UNCHANGED <<requestData, submitted, loading, error, inflight, mounted, last,
                   submits>>
    /\ UNCHANGED <<vars, rvars, vvars>>

\* The 2000 ms timer fires: setSubmitted(false).
TimerFires ==
    /\ timers > 0
    /\ timers' = timers - 1
    /\ IF mounted
       THEN /\ submitted' = FALSE
            /\ effectDue' = (effectDue \/ submitted)
       ELSE UNCHANGED <<submitted, effectDue>>
    /\ UNCHANGED <<requestData, loading, error, inflight, cleanup, mounted, last,
                   submits>>
    /\ UNCHANGED <<vars, rvars, vvars>>

\* The component unmounts: the cleanup of the last effect run is called.
Unmount ==
    /\ mounted
    /\ mounted' = FALSE
    /\ timers' = TimersAfterCleanup(timers, cleanup)
    /\ cleanup' = FALSE
    /\ effectDue' = FALSE
    /\ UNCHANGED <<requestData, submitted, loading, error, inflight, last, submits>>
    /\ UNCHANGED <<vars, rvars, vvars>>

NextForm ==
    \/ \E name \in FieldNames, value \in FieldValues : handleChange(name, value)
    \/ handleSubmit
    \/ \E i \in DOMAIN inflight, u \in UpstreamOutcomes : RouteAnswers(i, u)
    \/ \E i \in DOMAIN inflight, r \in OtherResponses : OtherAnswer(i, r)
    \/ \E i \in DOMAIN inflight : FetchResolves(i)
    \/ \E i \in DOMAIN inflight : FetchRejects(i)
    \/ \E i \in DOMAIN inflight : JsonSettles(i)
    \/ ResetEffect
    \/ TimerFires
    \/ Unmount

SpecForm == Init /\ [][NextForm]_allvars

\* Every fetch settles, every awaited body is read or fails to parse, effects
\* run after the render and timers fire.
Settles ==
    \/ \E i \in DOMAIN inflight, u \in UpstreamOutcomes : RouteAnswers(i, u)
    \/ \E i \in DOMAIN inflight : FetchResolves(i)
    \/ \E i \in DOMAIN inflight : FetchRejects(i)
    \/ \E i \in DOMAIN inflight : JsonSettles(i)

SpecFormFair ==
    /\ SpecForm
    /\ WF_allvars(Settles)
    /\ WF_allvars(ResetEffect)
    /\ WF_allvars(TimerFires)

\* ---- C13 ----
\* C13: when the upstream POST /execute failed or answered with an error, the
\* route's answer is an error response and the submission does not end as a
\* success.
C13_UpstreamFailureIsError ==
    last.upstream \in UpstreamFailures
        => (~last.response.ok /\ last.outcome # "success")

\* ---- C15 ----
\* C15: while the form is mounted, loading is true exactly while a handleSubmit
\* call is between its start and its finally block, and once true it becomes
\* false again, however the request ends.
C15_LoadingEnds ==
    /\ [](mounted => (loading <=> inflight # <<>>))
    /\ ((mounted /\ loading) ~> (~loading \/ ~mounted))

\* A submission has ended in the catch block and loading is false again.
C15_Witness ==
    /\ mounted
    /\ last.outcome = "exception"
    /\ last.response.body = "not json"
    /\ error = GenericError
    /\ ~loading
    /\ inflight = <<>>

\* ---- C16 ----
\* The call at position i of inflight got an ok response whose body parsed.
GotOk(i) ==
    /\ inflight[i].pos = "parsing"
    /\ inflight[i].response.ok
    /\ inflight[i].response.body # "not json"

\* C16: in the step that ends a handleSubmit call of the mounted form, an ok
\* response sets submitted and clears the fields and leaves error null; any
\* other ending sets error to one of the three messages and leaves submitted
\* false and the fields as they are; submitted becomes true in no other step;
\* and the step that starts a call sets error to null.
C16_OutcomesExclusive ==
    [][ /\ \A i \in DOMAIN inflight :
              (mounted /\ inflight' = Remove(inflight, i))
                  => IF GotOk(i)
                     THEN /\ submitted'
                          /\ requestData' = EmptyRequestData
                          /\ error' = JsNull
                     ELSE /\ ~submitted'
                          /\ requestData' = requestData
                          /\ error' \in {"Something went wrong", "Unknown error",
                                         GenericError}
        /\ (submitted' /\ ~submitted)
              => \E i \in DOMAIN inflight : inflight' = Remove(inflight, i) /\ GotOk(i)
        /\ Len(inflight') > Len(inflight) => error' = JsNull ]_allvars

\* A submission was answered non-ok without an error field: the form shows
\* 'Unknown error' and still holds the url that was typed.
C16_Witness ==
    /\ mounted
    /\ last.outcome = "error"
    /\ ~last.response.ok
    /\ error = "Unknown error"
    /\ ~submitted
    /\ requestData.url = "x"

\* ---- C17 ----
\* C17: at most one handleSubmit call is in flight, and while one is, loading
\* is true and the form cannot be submitted.
C17_OneInFlight ==
    /\ Len(inflight) <= 1
    /\ (mounted /\ inflight # <<>>)
          => (loading /\ ~SubmitEnabled(loading, submitted, requestData))

\* The second submission is in flight, after the first one has ended.
C17_Witness ==
    /\ mounted
    /\ submits = 2
    /\ Len(inflight) = 1
    /\ last.outcome # "none"
    /\ loading

\* ---- C18 ----
\* C18: while the form stays mounted, submitted = TRUE is followed by
\* submitted = FALSE with no user action; at most one reset timer is pending;
\* and no timer is pending once the component is unmounted.
C18_SubmittedResets ==
    /\ [](timers <= 1)
    /\ [](~mounted => timers = 0)
    /\ ((mounted /\ submitted) ~> (~submitted \/ ~mounted))

\* The timer of a successful submission has fired: the form is shown again and
\* no timer is pending.
C18_Witness ==
    /\ mounted
    /\ last.outcome = "success"
    /\ ~submitted
    /\ timers = 0
    /\ ~effectDue
    /\ ~cleanup

\* ---- BrowserView: fetchSessions and its interval ----
\* How one fetchSessions call can go: fetch rejects, response.json() rejects,
\* or the body is parsed.
PollOutcomes == {"rejected", "not json", "parsed"}

\* The outcomes in which the poll failed before its data could be used.
PollFailures == {"rejected", "not json"}

\* Whether the call ends in the catch block.  With a parsed body the try block
\* goes on to setSessions(data.sessions); the component declares steps and
\* setSteps only, so that call throws a ReferenceError, which is caught too.
Caught(outcome) == TRUE

\* steps after one fetchSessions call: no branch reaches a setter of steps.
StepsAfterPoll(outcome, list) == list

\* A catch block that gives up polling: clearInterval on an error.
IntervalClearedOnError(outcome, active) == IF Caught(outcome) THEN FALSE ELSE active

\* The interval after one fetchSessions call: catch and finally leave it alone.
IntervalAfterPoll(outcome, active) == active

\* useEffect(..., []) after the first render: fetchSessions() and setInterval.
ViewMounts ==
    /\ phase = "rendered"
    /\ phase' = "mounted"
    /\ interval' = TRUE
    /\ fetching' = fetching + 1
    /\ polls' = polls + 1
    /\ UNCHANGED <<steps, viewLoading, lastPoll, failedAt>>
    /\ UNCHANGED <<vars, rvars, fvars>>

\* The interval fires: one more fetchSessions call.
IntervalTick ==
    /\ interval
    /\ polls < MaxPolls
    /\ fetching' = fetching + 1
    /\ polls' = polls + 1
    /\ UNCHANGED <<steps, viewLoading, phase, interval, lastPoll, failedAt>>
    /\ UNCHANGED <<vars, rvars, fvars>>

\* One fetchSessions call ends: try, catch, finally { setLoading(false) }.
\* State setters of an unmounted component do nothing.
fetchSessions(outcome) ==
    /\ fetching > 0
    /\ fetching' = fetching - 1
    /\ lastPoll' = outcome
    /\ failedAt' = IF Caught(outcome) THEN polls ELSE failedAt
    /\ steps' = IF phase = "mounted" THEN StepsAfterPoll(outcome, steps) ELSE steps
    /\ viewLoading' = IF phase = "mounted" THEN FALSE ELSE viewLoading
    /\ interval' = IntervalAfterPoll(outcome, interval)
    /\ UNCHANGED <<phase, polls>>
    /\ UNCHANGED <<vars, rvars, fvars>>

\* The effect's cleanup: clearInterval(interval).
ViewUnmounts ==
    /\ phase # "unmounted"
    /\ phase' = "unmounted"
    /\ interval' = FALSE
    /\ UNCHANGED <<steps, viewLoading, fetching, polls, lastPoll, failedAt>>
    /\ UNCHANGED <<vars, rvars, fvars>>

NextView ==
    \/ ViewMounts
    \/ IntervalTick
    \/ \E o \in PollOutcomes : fetchSessions(o)
    \/ ViewUnmounts

SpecView == Init /\ [][NextView]_allvars

\* ---- C14 ----
\* C14: a fetchSessions call that fails leaves the shown list, the interval
\* and the mounted component as they were; the interval is active as long as
\* the component is mounted and is cleared when it unmounts.
C14_PollingSurvivesFailure ==
    [][ /\ (fetching' < fetching /\ lastPoll' \in PollFailures)
              => (steps' = steps /\ interval' = interval /\ phase' = phase)
        /\ (phase' = "mounted") => interval'
        /\ (phase' = "unmounted") => ~interval' ]_allvars

\* After a poll failed, the interval has started a further poll, which is
\* under way.
C14_Witness ==
    /\ phase = "mounted"
    /\ lastPoll \in PollFailures
    /\ failedAt > 0
    /\ polls > failedAt
    /\ fetching > 0
    /\ interval

====
